---- MODULE Spec2Model ----
(***************************************************************************)
(* pyproject_metadata (src/pyproject_metadata/__init__.py): the            *)
(* StandardMetadata record, its write protection, validate(),              *)
(* auto_metadata_version, from_pyproject, the two renderers and            *)
(* _build_extra_req.                                                       *)
(*                                                                         *)
(* Python values are represented as follows.                               *)
(*   None / Optional[T]   None == <<>>, a value v of T is Some(v) == <<v>> *)
(*   str                  a TLA+ string; a string whose characters matter  *)
(*                        (the project name, a keyword) is a sequence of   *)
(*                        characters                                       *)
(*   list, dict           a sequence (a dict is a sequence of <<k, v>>     *)
(*                        pairs in insertion order)                        *)
(*   an object            a function from attribute names to values        *)
(*   a raised exception   the "raised" field of the frame an operation     *)
(*                        returns; once it is set the rest of the          *)
(*                        operation is skipped                             *)
(***************************************************************************)
EXTENDS Integers, Sequences, FiniteSets, TLC

VARIABLES
    md,       \* the StandardMetadata object (NoRecord before construction)
    call,     \* the last operation called, with its arguments
    res,      \* what that operation returned or raised
    nassign   \* number of attribute assignments made since construction

vars == <<md, call, res, nassign>>

----------------------------------------------------------------------------
(* Bounds of the model. *)

MaxAssign == 2
MaxNameLen == 3
MaxMarkerLen == 5

----------------------------------------------------------------------------
(* Python values. *)

None == <<>>
Some(v) == <<v>>

NoRecord == <<>>
HasRecord(m) == DOMAIN m # {}

Range(s) == {s[i] : i \in DOMAIN s}

SeqsUpTo(S, n) == UNION {[1..k -> S] : k \in 0..n}

----------------------------------------------------------------------------
(* constants.py and errors.py are not part of the sources at hand; they     *)
(* are modelled from the specification.                                     *)

KNOWN_METADATA_VERSIONS == {"2.1", "2.2", "2.3", "2.4"}
PRE_SPDX_METADATA_VERSIONS == {"2.1", "2.2", "2.3"}

KNOWN_TOPLEVEL_FIELDS == {"build-system", "project", "tool"}
KNOWN_BUILD_SYSTEM_FIELDS == {"backend-path", "build-backend", "requires"}
KNOWN_PROJECT_FIELDS ==
    {"authors", "classifiers", "dependencies", "description", "dynamic",
     "entry-points", "gui-scripts", "keywords", "license", "license-files",
     "maintainers", "name", "optional-dependencies", "readme",
     "requires-python", "scripts", "urls", "version"}

ConfigurationError(msg, key) ==
    [type |-> "ConfigurationError", msg |-> msg, key |-> key, exceptions |-> <<>>]

ExceptionGroup(msg, errors) ==
    [type |-> "ExceptionGroup", msg |-> msg, key |-> None, exceptions |-> errors]

AttributeError(msg, name) ==
    [type |-> "AttributeError", msg |-> msg, key |-> Some(name), exceptions |-> <<>>]

(* A frame: the collector's mode and recorded errors, the exception that   *)
(* ended the operation (if any) and the warnings emitted so far.           *)
ErrorCollector(collect_errors) ==
    [collect_errors |-> collect_errors, errors |-> <<>>, raised |-> None,
     warnings |-> <<>>]

config_error(ec, msg, key) ==
    IF ec.raised # None THEN ec
    ELSE IF ec.collect_errors
         THEN [ec EXCEPT !.errors = Append(@, ConfigurationError(msg, key))]
         ELSE [ec EXCEPT !.raised = Some(ConfigurationError(msg, key))]

finalize(ec, msg) ==
    IF ec.raised # None THEN ec
    ELSE IF ec.errors # <<>>
         THEN [ec EXCEPT !.raised = Some(ExceptionGroup(msg, ec.errors))]
         ELSE ec

warnings_warn(ec, msg) ==
    IF ec.raised # None THEN ec ELSE [ec EXCEPT !.warnings = Append(@, msg)]

----------------------------------------------------------------------------
(* The StandardMetadata dataclass. *)

Fields ==
    <<"name", "version", "description", "license", "license_files", "readme",
      "requires_python", "dependencies", "optional_dependencies",
      "entrypoints", "authors", "maintainers", "urls", "classifiers",
      "keywords", "scripts", "gui_scripts", "dynamic", "dynamic_metadata",
      "metadata_version", "all_errors", "_locked_metadata">>

FieldNames == Range(Fields)

(* The dataclass defaults; name has none. *)
Defaults ==
    [f \in FieldNames \ {"name"} |->
        CASE f \in {"version", "description", "license", "license_files",
                    "readme", "requires_python", "metadata_version"} -> None
          [] f \in {"all_errors", "_locked_metadata"} -> FALSE
          [] OTHER -> <<>>]

(* License | str *)
SpdxLicense(expr) == [type |-> "str", value |-> expr]
License(text) == [type |-> "License", value |-> text]
isinstance_str(x) == x # None /\ x[1].type = "str"
isinstance_License(x) == x # None /\ x[1].type = "License"

(* c.startswith('License ::'): a classifier is a text whose first token   *)
(* is its first ten characters                                             *)
LicenseClassifier == <<"License ::", " OSI Approved :: MIT License">>
OtherClassifier == <<"Programmin", "g Language :: Python">>
startswith_License(c) == c # <<>> /\ c[1] = "License ::"

(* name.replace('_', '-'), over the attribute names of the model *)
AttrNames == FieldNames \cup {"entry_points"}

replace_underscore(name) ==
    CASE name = "license_files" -> "license-files"
      [] name = "requires_python" -> "requires-python"
      [] name = "optional_dependencies" -> "optional-dependencies"
      [] name = "gui_scripts" -> "gui-scripts"
      [] name = "dynamic_metadata" -> "dynamic-metadata"
      [] name = "metadata_version" -> "metadata-version"
      [] name = "all_errors" -> "all-errors"
      [] name = "_locked_metadata" -> "-locked-metadata"
      [] name = "entry_points" -> "entry-points"
      [] OTHER -> name

(* The dataclass default of _locked_metadata is a class attribute: it is   *)
(* what self._locked_metadata reads before __init__ has assigned it.       *)
getattr(self, name) ==
    IF name \in DOMAIN self THEN self[name] ELSE Defaults[name]

setattr_rejected(self, name) ==
    /\ getattr(self, "_locked_metadata")
    /\ replace_underscore(name) \notin
           Range(getattr(self, "dynamic")) \cup {"metadata-version", "dynamic-metadata"}

object_setattr(self, name, value) ==
    [a \in DOMAIN self \cup {name} |-> IF a = name THEN value ELSE self[a]]

(* StandardMetadata.__setattr__: <<the object afterwards, the exception>> *)
setattr(self, name, value) ==
    IF setattr_rejected(self, name)
    THEN <<self, Some(AttributeError("Field is not dynamic", name))>>
    ELSE <<object_setattr(self, name, value), None>>

----------------------------------------------------------------------------
(* auto_metadata_version *)

(* variant: dynamic_metadata tested before the license fields *)
auto_metadata_version_dynamic_first(self) ==
    IF self.metadata_version # None THEN self.metadata_version[1]
    ELSE IF self.dynamic_metadata # <<>> THEN "2.2"
    ELSE IF isinstance_str(self.license) \/ self.license_files # None THEN "2.4"
    ELSE "2.1"

auto_metadata_version(self) ==
    IF self.metadata_version # None THEN self.metadata_version[1]
    ELSE IF isinstance_str(self.license) \/ self.license_files # None THEN "2.4"
    ELSE IF self.dynamic_metadata # <<>> THEN "2.2"
    ELSE "2.1"

----------------------------------------------------------------------------
(* The project name pattern:                                                *)
(*   re.match(r'^([A-Z0-9]|[A-Z0-9][A-Z0-9._-]*[A-Z0-9])$', name, re.I)     *)
(* Characters stand for their classes: "a" an ASCII letter or digit, "."    *)
(* one of . _ -, "\n" a line feed, "K" the Kelvin sign U+212A (one of the   *)
(* non-ASCII letters a case-insensitive [A-Z] matches), "!" anything else.  *)

Chars == {"a", ".", "\n", "K", "!"}

class_alnum(c) == c \in {"a", "K"}
class_alnum_punct(c) == class_alnum(c) \/ c = "."

(* the group between ^ and $ consumes exactly s *)
group_matches(s) ==
    /\ Len(s) >= 1
    /\ class_alnum(s[1])
    /\ class_alnum(s[Len(s)])
    /\ \A i \in 1..Len(s) : class_alnum_punct(s[i])

(* $ matches at the end of the string and just before a line feed that     *)
(* ends the string                                                         *)
re_match_name(s) ==
    \/ group_matches(s)
    \/ /\ Len(s) >= 1
       /\ s[Len(s)] = "\n"
       /\ group_matches(SubSeq(s, 1, Len(s) - 1))

----------------------------------------------------------------------------
(* validate *)

MsgVersion == "The metadata_version must be one of KNOWN_METADATA_VERSIONS or None (default)"
MsgName == "Invalid project name"
MsgFilesLicense == "project.license-files must not be used when project.license is not a SPDX license expression"
MsgSpdxClassifier == "Setting project.license to an SPDX license expression is not compatible with License :: classifiers"
MsgSpdxPre == "Setting project.license to an SPDX license expression is supported only when emitting metadata version >= 2.4"
MsgFilesPre == "project.license-files is supported only when emitting metadata version >= 2.4"
WarnDescription == "The one-line summary project.description should not contain more than one line"
WarnLicenseObject == "Set project.license to an SPDX license expression for metadata >= 2.4"
WarnClassifier == "License :: classifiers are deprecated for metadata >= 2.4"

any_license_classifier(self) ==
    \E i \in DOMAIN self.classifiers : startswith_License(self.classifiers[i])

version_rule(self) ==
    auto_metadata_version(self) \notin KNOWN_METADATA_VERSIONS

name_rule(self) == ~re_match_name(self.name)

(* variant: the rule without the test that the license is a License object *)
files_license_rule_any_license(self) ==
    self.license_files # None /\ self.license # None

files_license_rule(self) ==
    self.license_files # None /\ isinstance_License(self.license)

spdx_classifier_rule(self) ==
    isinstance_str(self.license) /\ any_license_classifier(self)

spdx_pre_rule(self) ==
    /\ isinstance_str(self.license)
    /\ auto_metadata_version(self) \in PRE_SPDX_METADATA_VERSIONS

files_pre_rule(self) ==
    /\ self.license_files # None
    /\ auto_metadata_version(self) \in PRE_SPDX_METADATA_VERSIONS

description_multiline(self) ==
    /\ self.description # None
    /\ self.description[1] # <<>>
    /\ "\n" \in Range(self.description[1])

(* variant: the two license warnings tested independently *)
validate_warnings_independent(self, e) ==
    LET w1 == IF description_multiline(self)
              THEN warnings_warn(e, WarnDescription) ELSE e
        w2 == IF auto_metadata_version(self) \notin PRE_SPDX_METADATA_VERSIONS
                 /\ isinstance_License(self.license)
              THEN warnings_warn(w1, WarnLicenseObject) ELSE w1
    IN  IF auto_metadata_version(self) \notin PRE_SPDX_METADATA_VERSIONS
           /\ any_license_classifier(self)
        THEN warnings_warn(w2, WarnClassifier)
        ELSE w2

validate_warnings(self, e) ==
    LET w1 == IF description_multiline(self)
              THEN warnings_warn(e, WarnDescription) ELSE e
    IN  IF auto_metadata_version(self) \notin PRE_SPDX_METADATA_VERSIONS
        THEN IF isinstance_License(self.license)
             THEN warnings_warn(w1, WarnLicenseObject)
             ELSE IF any_license_classifier(self)
                  THEN warnings_warn(w1, WarnClassifier)
                  ELSE w1
        ELSE w1

validate(self, warn) ==
    LET e0 == ErrorCollector(self.all_errors)
        e1 == IF version_rule(self)
              THEN config_error(e0, MsgVersion, None) ELSE e0
        e2 == IF name_rule(self)
              THEN config_error(e1, MsgName, Some("project.name")) ELSE e1
        e3 == IF files_license_rule(self)
              THEN config_error(e2, MsgFilesLicense, Some("project.license-files"))
              ELSE e2
        e4 == IF spdx_classifier_rule(self)
              THEN config_error(e3, MsgSpdxClassifier, Some("project.license"))
              ELSE e3
        e5 == IF warn THEN validate_warnings(self, e4) ELSE e4
        e6 == IF spdx_pre_rule(self)
              THEN config_error(e5, MsgSpdxPre, Some("project.license")) ELSE e5
        e7 == IF files_pre_rule(self)
              THEN config_error(e6, MsgFilesPre, Some("project.license-files"))
              ELSE e6
    IN  finalize(e7, "Metadata validation failed")

----------------------------------------------------------------------------
(* The dataclass __init__: every field is assigned through __setattr__ in  *)
(* declaration order, then __post_init__ runs validate().                  *)

RECURSIVE dataclass_init(_, _, _)
dataclass_init(self, kwargs, i) ==
    IF i > Len(Fields) THEN self
    ELSE LET f == Fields[i]
             v == IF f \in DOMAIN kwargs THEN kwargs[f] ELSE Defaults[f]
         IN  dataclass_init(setattr(self, f, v)[1], kwargs, i + 1)

(* The constructor call: the object and the frame of __post_init__ *)
StandardMetadata(kwargs) ==
    LET self == dataclass_init(NoRecord, kwargs, 1)
    IN  [self |-> self, frame |-> validate(self, TRUE)]

----------------------------------------------------------------------------
(* from_pyproject.  A pyproject table is                                   *)
(*   [toplevel: the keys of the document, build_system: the keys of its    *)
(*    build-system table, project: the project table]                      *)
(* and the Validate flag set is a set of flag names.                       *)

ValidateFlags == {"TOP_LEVEL", "BUILD_SYSTEM", "PROJECT", "WARN"}

MsgExtraTop == "Extra keys present in pyproject.toml"
MsgExtraBuild == "Extra keys present in build-system"
MsgExtraProject == "Extra keys present in project"
MsgDynamicDefined == "Field declared as dynamic in project.dynamic but is defined"
MsgNameMissing == "Field project.name missing"
MsgVersionMissing == "Field project.version missing and version not specified in project.dynamic"
MsgNoProject == "Section project missing in pyproject.toml"

(* if Validate.<SCOPE> | Validate.WARN & validate:  ("&" binds tighter     *)
(* than "|"; a flag value is true when it is not empty)                    *)
scope_checked(scope, validate_flags) ==
    ({scope} \cup ({"WARN"} \cap validate_flags)) # {}

(* variant: WARN tested before the scope's own flag *)
extra_keys_check_warn_first(p, scope, extra_keys, msg, validate_flags) ==
    IF scope_checked(scope, validate_flags) /\ extra_keys # {}
    THEN IF {"WARN"} \subseteq validate_flags
         THEN warnings_warn(p, msg)
         ELSE IF {scope} \subseteq validate_flags
              THEN config_error(p, msg, None)
              ELSE p
    ELSE p

extra_keys_check(p, scope, extra_keys, msg, validate_flags) ==
    IF scope_checked(scope, validate_flags) /\ extra_keys # {}
    THEN IF {scope} \subseteq validate_flags
         THEN config_error(p, msg, None)
         ELSE IF {"WARN"} \subseteq validate_flags
              THEN warnings_warn(p, msg)
              ELSE p
    ELSE p

(* PyProjectReader (pyproject.py) is not part of the sources at hand: its  *)
(* extractors return the value of a well-typed table entry.                *)
project_get(project, key, default) ==
    IF key \in DOMAIN project THEN project[key] ELSE default

get_dynamic(project) == project_get(project, "dynamic", <<>>)

(* with pyproject.collect(): an exception raised inside is recorded when   *)
(* errors are collected, and propagates otherwise                          *)
collect(p, inner) ==
    IF p.raised # None THEN p
    ELSE LET w == [p EXCEPT !.warnings = @ \o inner.warnings]
         IN  IF inner.raised = None THEN w
             ELSE IF ~p.collect_errors THEN [w EXCEPT !.raised = inner.raised]
             ELSE IF inner.raised[1].type = "ExceptionGroup"
                  THEN [w EXCEPT !.errors = @ \o inner.raised[1].exceptions]
                  ELSE [w EXCEPT !.errors = Append(@, inner.raised[1])]

RECURSIVE dynamic_defined(_, _, _, _)
dynamic_defined(p, dynamic, project, i) ==
    IF i > Len(dynamic) THEN p
    ELSE dynamic_defined(
             IF dynamic[i] \in DOMAIN project
             THEN config_error(p, MsgDynamicDefined, Some(dynamic[i]))
             ELSE p,
             dynamic, project, i + 1)

UNKNOWN == <<"a", "a", "a", "a", "a", "a", "a">>

from_pyproject(data, metadata_version, dynamic_metadata, validate_flags, all_errors) ==
    LET p0 == ErrorCollector(all_errors)
    IN
    IF "project" \notin data.toplevel
    THEN [self |-> NoRecord,
          frame |-> finalize(config_error(p0, MsgNoProject, Some("project")),
                             "Failed to parse pyproject.toml")]
    ELSE
    LET project == data.project
        p1 == extra_keys_check(p0, "TOP_LEVEL",
                  data.toplevel \ KNOWN_TOPLEVEL_FIELDS, MsgExtraTop, validate_flags)
        p2 == extra_keys_check(p1, "BUILD_SYSTEM",
                  data.build_system \ KNOWN_BUILD_SYSTEM_FIELDS, MsgExtraBuild,
                  validate_flags)
        p3 == extra_keys_check(p2, "PROJECT",
                  (DOMAIN project) \ KNOWN_PROJECT_FIELDS, MsgExtraProject,
                  validate_flags)
        dynamic == get_dynamic(project)
        p4 == dynamic_defined(p3, dynamic, project, 1)
        has_name == "name" \in DOMAIN project
        p5 == IF has_name THEN p4 ELSE config_error(p4, MsgNameMissing, Some("name"))
        name == IF has_name THEN project["name"] ELSE UNKNOWN
        has_version == "version" \in DOMAIN project
        version == IF has_version
                   THEN (IF project["version"] # "" THEN Some(project["version"]) ELSE None)
                   ELSE Some("0.0.0")
        p6 == IF ~has_version /\ "version" \notin Range(dynamic)
              THEN config_error(p5, MsgVersionMissing, Some("version"))
              ELSE p5
        kwargs ==
            [f \in FieldNames \ {"_locked_metadata"} |->
                CASE f = "name" -> name
                  [] f = "version" -> version
                  [] f = "description" -> project_get(project, "description", None)
                  [] f = "license" -> project_get(project, "license", None)
                  [] f = "license_files" -> project_get(project, "license-files", None)
                  [] f = "readme" -> project_get(project, "readme", None)
                  [] f = "requires_python" -> project_get(project, "requires-python", None)
                  [] f = "dependencies" -> project_get(project, "dependencies", <<>>)
                  [] f = "optional_dependencies" ->
                         project_get(project, "optional-dependencies", <<>>)
                  [] f = "entrypoints" -> project_get(project, "entry-points", <<>>)
                  [] f = "authors" -> project_get(project, "authors", <<>>)
                  [] f = "maintainers" -> project_get(project, "maintainers", <<>>)
                  [] f = "urls" -> project_get(project, "urls", <<>>)
                  [] f = "classifiers" -> project_get(project, "classifiers", <<>>)
                  [] f = "keywords" -> project_get(project, "keywords", <<>>)
                  [] f = "scripts" -> project_get(project, "scripts", <<>>)
                  [] f = "gui_scripts" -> project_get(project, "gui-scripts", <<>>)
                  [] f = "dynamic" -> dynamic
                  [] f = "dynamic_metadata" -> dynamic_metadata
                  [] f = "metadata_version" -> metadata_version
                  [] f = "all_errors" -> all_errors]
        built == IF p6.raised # None
                 THEN [self |-> NoRecord, frame |-> p6]
                 ELSE StandardMetadata(kwargs)
        constructed == p6.raised = None /\ built.frame.raised = None
        p7 == collect(p6, built.frame)
        self == IF constructed
                THEN setattr(built.self, "_locked_metadata", TRUE)[1]
                ELSE NoRecord
        p8 == finalize(p7, "Failed to parse pyproject.toml")
    IN  [self |-> IF p8.raised = None THEN self ELSE NoRecord, frame |-> p8]

----------------------------------------------------------------------------
(* packaging.markers.Marker, as _build_extra_req uses it.  A marker text   *)
(* is a sequence of tokens: "(", ")", "and", "or", and any other token,    *)
(* which stands for one comparison (variable, operator, value).            *)
(* Marker._markers is a list of items: a comparison (a tuple), "and" or    *)
(* "or" (a str), or a nested list for a parenthesised group.               *)

Tuple(a) == [t |-> "tuple", v |-> a, l |-> <<>>]
BoolOp(o) == [t |-> "str", v |-> o, l |-> <<>>]
List(items) == [t |-> "list", v |-> "", l |-> items]

IsComparison(tok) == tok \notin {"(", ")", "and", "or"}

ParseFail == [ok |-> FALSE, val |-> <<>>, pos |-> 0]

(* marker      = marker_atom (("and" | "or") marker_atom)*                 *)
(* marker_atom = "(" marker ")" | comparison                               *)
RECURSIVE parse_marker(_, _)
RECURSIVE parse_marker_atom(_, _)
RECURSIVE parse_marker_rest(_, _, _)

parse_marker_atom(toks, pos) ==
    IF pos > Len(toks) THEN ParseFail
    ELSE IF toks[pos] = "("
         THEN LET inner == parse_marker(toks, pos + 1)
              IN  IF inner.ok /\ inner.pos <= Len(toks) /\ toks[inner.pos] = ")"
                  THEN [ok |-> TRUE, val |-> List(inner.val), pos |-> inner.pos + 1]
                  ELSE ParseFail
         ELSE IF IsComparison(toks[pos])
              THEN [ok |-> TRUE, val |-> Tuple(toks[pos]), pos |-> pos + 1]
              ELSE ParseFail

parse_marker_rest(toks, pos, acc) ==
    IF pos <= Len(toks) /\ toks[pos] \in {"and", "or"}
    THEN LET atom == parse_marker_atom(toks, pos + 1)
         IN  IF atom.ok
             THEN parse_marker_rest(toks, atom.pos,
                                    acc \o <<BoolOp(toks[pos]), atom.val>>)
             ELSE ParseFail
    ELSE [ok |-> TRUE, val |-> acc, pos |-> pos]

parse_marker(toks, pos) ==
    LET atom == parse_marker_atom(toks, pos)
    IN  IF atom.ok THEN parse_marker_rest(toks, atom.pos, <<atom.val>>)
        ELSE ParseFail

ValidMarkerText(toks) ==
    LET r == parse_marker(toks, 1) IN r.ok /\ r.pos = Len(toks) + 1

(* Marker(text)._markers *)
Marker(toks) == parse_marker(toks, 1).val

(* str(marker): packaging's _format_marker(marker, first) *)
RECURSIVE format_marker(_, _)
RECURSIVE format_items(_, _)

format_items(items, i) ==
    IF i > Len(items) THEN <<>>
    ELSE format_marker(items[i], FALSE) \o format_items(items, i + 1)

format_marker(marker, first) ==
    IF marker.t = "list" /\ Len(marker.l) = 1 /\ marker.l[1].t \in {"list", "tuple"}
    THEN format_marker(marker.l[1], TRUE)
    ELSE IF marker.t = "list"
         THEN IF first THEN format_items(marker.l, 1)
              ELSE <<"(">> \o format_items(marker.l, 1) \o <<")">>
         ELSE <<marker.v>>

str_marker(markers) == format_marker(List(markers), TRUE)

(* Marker.evaluate: packaging's _evaluate_markers; env is the set of       *)
(* comparisons that are true.  "or" starts a new group, a group holds when *)
(* all its items hold, the marker holds when some group does.              *)
RECURSIVE evaluate_markers(_, _)
RECURSIVE evaluate_groups(_, _, _, _, _)

evaluate_groups(markers, env, i, current, earlier) ==
    IF i > Len(markers) THEN earlier \/ current
    ELSE LET m == markers[i]
         IN  IF m.t = "list"
             THEN evaluate_groups(markers, env, i + 1,
                                  current /\ evaluate_markers(m.l, env), earlier)
             ELSE IF m.t = "tuple"
             THEN evaluate_groups(markers, env, i + 1, current /\ (m.v \in env), earlier)
             ELSE IF m.v = "or"
             THEN evaluate_groups(markers, env, i + 1, TRUE, earlier \/ current)
             ELSE evaluate_groups(markers, env, i + 1, current, earlier)

evaluate_markers(markers, env) == evaluate_groups(markers, env, 1, TRUE, FALSE)

----------------------------------------------------------------------------
(* _build_extra_req.  A requirement is [name, marker] with marker None or  *)
(* Some(_markers).                                                         *)

extra_comparison(extra) == "extra == \"" \o extra \o "\""

or_in_markers(markers) ==
    \E i \in DOMAIN markers : markers[i].t = "str" /\ markers[i].v = "or"

build_extra_req(extra, requirement) ==
    IF requirement.marker # None
    THEN IF or_in_markers(requirement.marker[1])
         THEN [requirement EXCEPT !.marker =
                  Some(Marker(<<"(">> \o str_marker(requirement.marker[1])
                              \o <<")", "and", extra_comparison(extra)>>))]
         ELSE [requirement EXCEPT !.marker =
                  Some(Marker(str_marker(requirement.marker[1])
                              \o <<"and", extra_comparison(extra)>>))]
    ELSE [requirement EXCEPT !.marker = Some(Marker(<<extra_comparison(extra)>>))]

----------------------------------------------------------------------------
(* Text.  A string the code joins, splits or rewrites is a sequence of     *)
(* tokens; Str(x) is the text made of the single token x.                  *)

(* the text of a string; the empty string is the empty text *)
Str(x) == IF x = "" THEN <<>> ELSE <<x>>

RECURSIVE join(_, _)
join(sep, texts) ==
    IF texts = <<>> THEN <<>>
    ELSE IF Len(texts) = 1 THEN texts[1]
    ELSE texts[1] \o <<sep>> \o join(sep, Tail(texts))

RECURSIVE concat(_)
concat(text) == IF text = <<>> THEN "" ELSE text[1] \o concat(Tail(text))

RECURSIVE map_tokens(_, _)
map_tokens(F(_), text) ==
    IF text = <<>> THEN <<>> ELSE F(text[1]) \o map_tokens(F, Tail(text))

(* str.lower() and str.capitalize(), over the words of the model *)
lower(s) ==
    CASE s = "Metadata-Version" -> "metadata-version"
      [] s = "Name" -> "name"
      [] s = "Version" -> "version"
      [] s = "Summary" -> "summary"
      [] s = "Keywords" -> "keywords"
      [] s = "Home-page" -> "home-page"
      [] s = "Author" -> "author"
      [] s = "Author-Email" -> "author-email"
      [] s = "Maintainer" -> "maintainer"
      [] s = "Maintainer-Email" -> "maintainer-email"
      [] s = "License" -> "license"
      [] s = "License-Expression" -> "license-expression"
      [] s = "License-File" -> "license-file"
      [] s = "Classifier" -> "classifier"
      [] s = "Project-URL" -> "project-url"
      [] s = "Requires-Python" -> "requires-python"
      [] s = "Requires-Dist" -> "requires-dist"
      [] s = "Provides-Extra" -> "provides-extra"
      [] s = "Description-Content-Type" -> "description-content-type"
      [] s = "Dynamic" -> "dynamic"
      [] s = "Test" -> "test"
      [] OTHER -> s

capitalize(s) ==
    CASE s = "homepage" -> "Homepage"
      [] s = "GitHub" -> "Github"
      [] OTHER -> s

(* name.replace('-', '_') of a lower-cased field name *)
replace_hyphen(s) ==
    CASE s = "metadata-version" -> "metadata_version"
      [] s = "home-page" -> "home_page"
      [] s = "author-email" -> "author_email"
      [] s = "maintainer-email" -> "maintainer_email"
      [] s = "license-expression" -> "license_expression"
      [] s = "license-file" -> "license_file"
      [] s = "project-url" -> "project_url"
      [] s = "requires-python" -> "requires_python"
      [] s = "requires-dist" -> "requires_dist"
      [] s = "provides-extra" -> "provides_extra"
      [] s = "description-content-type" -> "description_content_type"
      [] OTHER -> s

RECURSIVE Spaces(_)
Spaces(n) == IF n = 0 THEN "" ELSE " " \o Spaces(n - 1)

(* constants.py, modelled from the specification *)
KNOWN_METADATA_FIELDS ==
    {"author", "author-email", "classifier", "description",
     "description-content-type", "download-url", "dynamic", "home-page",
     "keywords", "license", "license-expression", "license-file",
     "maintainer", "maintainer-email", "metadata-version", "name",
     "obsoletes", "obsoletes-dist", "platform", "project-url", "provides",
     "provides-dist", "provides-extra", "requires", "requires-dist",
     "requires-external", "requires-python", "summary",
     "supported-platform", "version"}

KNOWN_MULTIUSE ==
    {"dynamic", "platform", "provides-extra", "supported-platform",
     "license-file", "classifier", "provides-dist", "obsoletes", "requires",
     "obsoletes-dist", "requires-dist", "requires-external", "project-url"}

----------------------------------------------------------------------------
(* The two message setters.  A message under construction is               *)
(*   [kind: "rfc822" or "json", headers: the header document's fields in   *)
(*    order, data: the structured document, payload, raised]               *)

NewMessage(kind) ==
    [kind |-> kind, headers |-> <<>>, data |-> <<>>, payload |-> None,
     raised |-> None]

(* RFC822Policy.header_store_parse *)
indent_newline(size, tok) ==
    IF tok = "\n" THEN <<"\n", Spaces(size)>> ELSE <<tok>>

header_store_parse(m, name, value) ==
    IF lower(name) \notin KNOWN_METADATA_FIELDS
    THEN [m EXCEPT !.raised = Some(ConfigurationError("Unknown field", Some(name)))]
    ELSE LET size == Len(name) + 2
             stored == map_tokens(LAMBDA tok : indent_newline(size, tok), value)
         IN  [m EXCEPT !.headers = Append(@, <<name, stored>>)]

(* _SmartMessageSetter.__setitem__; value is None or Some(text) *)
smart_setitem(m, name, value) ==
    IF value = None \/ value[1] = <<>> THEN m
    ELSE header_store_parse(m, name, value[1])

(* value.split(','), x.strip() for each piece, empty pieces dropped *)
RECURSIVE split_comma(_, _)
split_comma(text, piece) ==
    IF text = <<>> THEN <<piece>>
    ELSE IF text[1] = "," THEN <<piece>> \o split_comma(Tail(text), <<>>)
    ELSE split_comma(Tail(text), Append(piece, text[1]))

RECURSIVE lstrip(_)
lstrip(text) ==
    IF text # <<>> /\ text[1] = " " THEN lstrip(Tail(text)) ELSE text

RECURSIVE rstrip(_)
rstrip(text) ==
    IF text # <<>> /\ text[Len(text)] = " "
    THEN rstrip(SubSeq(text, 1, Len(text) - 1)) ELSE text

strip(text) == rstrip(lstrip(text))

RECURSIVE strip_all(_)
strip_all(pieces) ==
    IF pieces = <<>> THEN <<>>
    ELSE LET x == strip(pieces[1])
         IN  (IF x # <<>> THEN <<x>> ELSE <<>>) \o strip_all(Tail(pieces))

dict_set(d, key, value) ==
    [k \in DOMAIN d \cup {key} |-> IF k = key THEN value ELSE d[k]]

(* _JSonMessageSetter.__setitem__ *)
json_setitem(m, name, value) ==
    LET lname == lower(name)
        key == replace_hyphen(lname)
    IN  IF value = None THEN m
        ELSE IF lname = "keywords"
        THEN [m EXCEPT !.data = dict_set(@, key, strip_all(split_comma(value[1], <<>>)))]
        ELSE IF lname \in KNOWN_MULTIUSE
        THEN [m EXCEPT !.data =
                 dict_set(@, key,
                          Append(IF key \in DOMAIN m.data THEN m.data[key] ELSE <<>>,
                                 value[1]))]
        ELSE [m EXCEPT !.data = dict_set(@, key, value[1])]

(* smart_message[name] = value; skipped once an exception is raised *)
setitem(m, name, value) ==
    IF m.raised # None THEN m
    ELSE IF m.kind = "rfc822" THEN smart_setitem(m, name, value)
    ELSE json_setitem(m, name, value)

set_payload(m, payload) ==
    IF m.raised # None THEN m
    ELSE IF m.kind = "rfc822" THEN [m EXCEPT !.payload = Some(payload)]
    ELSE json_setitem(m, "description", Some(payload))

----------------------------------------------------------------------------
(* _write_metadata and its helpers.                                        *)
(*   a person             <<name, email>>, email None or Some(text)        *)
(*   a requirement        [name, marker]                                   *)
(*   a readme             [text, content_type]                             *)

RECURSIVE names_without_email(_)
names_without_email(people) ==
    IF people = <<>> THEN <<>>
    ELSE (IF people[1][2] = None \/ people[1][2][1] = <<>>
          THEN <<people[1][1]>> ELSE <<>>)
         \o names_without_email(Tail(people))

(* email.utils.formataddr((name, email)) *)
formataddr(name, email) ==
    IF name # <<>> THEN name \o <<" <">> \o email \o <<">">> ELSE email

RECURSIVE addresses(_)
addresses(people) ==
    IF people = <<>> THEN <<>>
    ELSE (IF people[1][2] # None /\ people[1][2][1] # <<>>
          THEN <<formataddr(people[1][1], people[1][2][1])>> ELSE <<>>)
         \o addresses(Tail(people))

or_None(text) == IF text = <<>> THEN None ELSE Some(text)

name_list(people) == or_None(join(", ", names_without_email(people)))
email_list(people) == or_None(join(", ", addresses(people)))

(* sorted(set(license_files)), over the paths of the model *)
PathOrder == <<"AUTHORS", "LICENSE">>
sorted_set(paths) == SelectSeq(PathOrder, LAMBDA q : q \in Range(paths))

RECURSIVE texts_of(_)
texts_of(strings) ==
    IF strings = <<>> THEN <<>> ELSE <<Str(strings[1])>> \o texts_of(Tail(strings))

dict_has(d, key) == \E i \in DOMAIN d : d[i][1] = key
dict_get(d, key) == d[CHOOSE i \in DOMAIN d : d[i][1] = key][2]

RECURSIVE project_urls(_)
project_urls(urls) ==
    IF urls = <<>> THEN <<>>
    ELSE <<<<capitalize(urls[1][1]), ", ">> \o Str(urls[1][2])>>
         \o project_urls(Tail(urls))

str_requirement(req) ==
    IF req.marker # None
    THEN <<req.name, "; ">> \o str_marker(req.marker[1])
    ELSE <<req.name>>

RECURSIVE str_requirements(_)
str_requirements(reqs) ==
    IF reqs = <<>> THEN <<>>
    ELSE <<str_requirement(reqs[1])>> \o str_requirements(Tail(reqs))

(* extra.replace('.', '-').replace('_', '-').lower() *)
norm_token(tok) == IF tok \in {".", "_"} THEN <<"-">> ELSE <<lower(tok)>>
normalize_extra(extra) == map_tokens(norm_token, extra)

(* _write_metadata is a straight line of smart_message[...] = ...         *)
(* statements, raise statements and one set_payload, none of which reads   *)
(* the message: it is modelled as the sequence of those statements for the *)
(* object, run in order against the setter until one raises.               *)
SetItem(name, value) == [i |-> "setitem", name |-> name, value |-> value, exc |-> None]
SetPayload(text) == [i |-> "set_payload", name |-> "", value |-> Some(text), exc |-> None]
Raise(exc) == [i |-> "raise", name |-> "", value |-> None, exc |-> Some(exc)]

RECURSIVE set_items(_, _)
set_items(name, values) ==
    IF values = <<>> THEN <<>>
    ELSE <<SetItem(name, Some(values[1]))>> \o set_items(name, Tail(values))

RECURSIVE extra_requirements(_, _)
extra_requirements(norm_extra, reqs) ==
    IF reqs = <<>> THEN <<>>
    ELSE <<str_requirement(build_extra_req(concat(norm_extra), reqs[1]))>>
         \o extra_requirements(norm_extra, Tail(reqs))

RECURSIVE write_optional_dependencies(_)
write_optional_dependencies(groups) ==
    IF groups = <<>> THEN <<>>
    ELSE LET norm_extra == normalize_extra(groups[1][1])
         IN  <<SetItem("Provides-Extra", Some(norm_extra))>>
             \o set_items("Requires-Dist", extra_requirements(norm_extra, groups[1][2]))
             \o write_optional_dependencies(Tail(groups))

RECURSIVE write_dynamic(_)
write_dynamic(fields) ==
    IF fields = <<>> THEN <<>>
    ELSE IF lower(fields[1]) \in {"name", "version", "dynamic"}
    THEN <<Raise(ConfigurationError("Field cannot be set as dynamic metadata", None))>>
    ELSE IF lower(fields[1]) \notin KNOWN_METADATA_FIELDS
    THEN <<Raise(ConfigurationError("Field is not known", None))>>
    ELSE <<SetItem("Dynamic", Some(Str(fields[1])))>> \o write_dynamic(Tail(fields))

version_missing(self) == self.version = None

write_version(self) ==
    IF version_missing(self)
    THEN <<Raise(ConfigurationError("Missing version field", None))>>
    ELSE <<SetItem("Version", Some(Str(self.version[1])))>>

write_license(self) ==
    IF isinstance_License(self.license)
    THEN <<SetItem("License", Some(self.license[1].value))>>
    ELSE IF isinstance_str(self.license)
    THEN <<SetItem("License-Expression", Some(self.license[1].value))>>
    ELSE <<>>

write_license_files(self) ==
    IF self.license_files # None
    THEN set_items("License-File", texts_of(sorted_set(self.license_files[1])))
    ELSE <<>>

write_readme(self) ==
    IF self.readme # None
    THEN (IF self.readme[1].content_type # <<>>
          THEN <<SetItem("Description-Content-Type", Some(self.readme[1].content_type))>>
          ELSE <<>>)
         \o <<SetPayload(self.readme[1].text)>>
    ELSE <<>>

statements(self) ==
    <<SetItem("Metadata-Version", Some(Str(auto_metadata_version(self)))),
      SetItem("Name", Some(self.name))>>
    \o write_version(self)
    \o (IF self.description # None /\ self.description # Some(<<>>)
        THEN <<SetItem("Summary", self.description)>> ELSE <<>>)
    \o <<SetItem("Keywords", or_None(join(",", self.keywords)))>>
    \o (IF dict_has(self.urls, "homepage")
        THEN <<SetItem("Home-page", Some(Str(dict_get(self.urls, "homepage"))))>>
        ELSE <<>>)
    \o <<SetItem("Author", name_list(self.authors)),
         SetItem("Author-Email", email_list(self.authors)),
         SetItem("Maintainer", name_list(self.maintainers)),
         SetItem("Maintainer-Email", email_list(self.maintainers))>>
    \o write_license(self)
    \o write_license_files(self)
    \o set_items("Classifier", self.classifiers)
    \o set_items("Project-URL", project_urls(self.urls))
    \o (IF self.requires_python # None /\ self.requires_python # Some(<<>>)
        THEN <<SetItem("Requires-Python", self.requires_python)>> ELSE <<>>)
    \o set_items("Requires-Dist", str_requirements(self.dependencies))
    \o write_optional_dependencies(self.optional_dependencies)
    \o write_readme(self)
    \o (IF auto_metadata_version(self) # "2.1"
        THEN write_dynamic(self.dynamic_metadata) ELSE <<>>)

execute(m, st) ==
    IF st.i = "raise" THEN [m EXCEPT !.raised = st.exc]
    ELSE IF st.i = "set_payload" THEN set_payload(m, st.value[1])
    ELSE setitem(m, st.name, st.value)

RECURSIVE run(_, _)
run(m, sts) ==
    IF sts = <<>> \/ m.raised # None THEN m
    ELSE run(execute(m, sts[1]), Tail(sts))

(* variant: rendering without the validation call *)
revalidate_skipped(self, m) == m

(* self.validate(warn=False) *)
revalidate(self, m) ==
    LET v == validate(self, FALSE)
    IN  IF v.raised # None THEN [m EXCEPT !.raised = v.raised] ELSE m

write_metadata(self, m) == run(revalidate(self, m), statements(self))

(* as_rfc822 and as_json: the message is returned unless an exception was  *)
(* raised                                                                  *)
as_rfc822(self) == write_metadata(self, NewMessage("rfc822"))
as_json(self) == write_metadata(self, NewMessage("json"))

----------------------------------------------------------------------------
(* The inputs of the model. *)

GoodName == <<"a">>
BadName == <<"a", ".">>
MIT == SpdxLicense(<<"MIT">>)
FreeText == License(<<"Permission is hereby granted">>)

(* project fields that project.dynamic may name, and the attribute that    *)
(* holds each (the keyword arguments of cls(...) in from_pyproject)        *)
DynamicFields ==
    {"version", "description", "license", "license-files", "readme",
     "requires-python", "dependencies", "optional-dependencies",
     "entry-points", "authors", "maintainers", "urls", "classifiers",
     "keywords", "scripts", "gui-scripts"}

attribute_of(field) ==
    CASE field = "license-files" -> "license_files"
      [] field = "requires-python" -> "requires_python"
      [] field = "optional-dependencies" -> "optional_dependencies"
      [] field = "entry-points" -> "entrypoints"
      [] field = "gui-scripts" -> "gui_scripts"
      [] OTHER -> field

EntryPoints == << <<"console", << <<"tool", "pkg:main">> >> >> >>
Script == << <<"tool", "pkg:main">> >>

(* the values the model assigns to each attribute after construction *)
ValuesOf(name) ==
    CASE name = "name" -> {BadName}
      [] name = "version" -> {None, Some("2.0")}
      [] name = "description" -> {Some(<<"A summary">>)}
      [] name = "license" -> {Some(MIT), Some(FreeText)}
      [] name = "license_files" -> {Some(<<"LICENSE">>)}
      [] name = "readme" ->
             {Some([text |-> <<"Read me">>, content_type |-> <<"text/markdown">>])}
      [] name = "requires_python" -> {Some(<<">=3.8">>)}
      [] name = "dependencies" -> {<<[name |-> "requests", marker |-> None]>>}
      [] name = "optional_dependencies" ->
             {<< <<<<"Test">>,
                   <<[name |-> "pytest", marker |-> Some(Marker(<<"A", "or", "B">>))]>> >> >>}
      [] name \in {"entrypoints", "entry_points"} -> {EntryPoints}
      [] name = "authors" -> {<< <<<<"Ann">>, None>> >>}
      [] name = "maintainers" -> {<< <<<<"Bob">>, Some(<<"bob@example.org">>)>> >>}
      [] name = "urls" -> {<< <<"homepage", "https://example.org">> >>}
      [] name = "classifiers" -> {<<LicenseClassifier>>}
      [] name = "keywords" -> {<< <<"k1">>, <<"k2">> >>}
      [] name \in {"scripts", "gui_scripts"} -> {Script}
      [] name = "dynamic" -> {<<"license">>}
      [] name = "dynamic_metadata" -> {<<"license">>, <<"Version">>}
      [] name = "metadata_version" -> {Some("2.1"), Some("2.4"), Some("9.9")}
      [] name = "all_errors" -> {TRUE}
      [] name = "_locked_metadata" -> {FALSE, TRUE}

(* keyword arguments of a direct constructor call *)
ConstructorArgs ==
    {[name |-> n, version |-> v, license |-> l, dynamic |-> d, all_errors |-> ae]
        : n \in {GoodName, BadName}, v \in {None, Some("1.0")},
          l \in {None, Some(MIT)}, d \in {<<>>, <<"version">>}, ae \in BOOLEAN}
    \cup
    {[name |-> GoodName, version |-> v, dynamic |-> d, _locked_metadata |-> TRUE]
        : v \in {None, Some("1.0")}, d \in {<<>>, <<"version">>}}

(* project tables: name, and optionally version, license and dynamic *)
ProjectTables ==
    LET Pick(keys, v, l, d) ==
            [k \in keys |->
                CASE k = "name" -> GoodName
                  [] k = "version" -> v
                  [] k = "license" -> l
                  [] k = "dynamic" -> d]
    IN  {Pick({"name"} \cup ks, v, Some(MIT), <<f>>)
            : ks \in SUBSET {"version", "license", "dynamic"},
              v \in {"", "1.0"}, f \in DynamicFields}

Documents ==
    {[toplevel |-> {"project"}, build_system |-> {}, project |-> p] : p \in ProjectTables}

----------------------------------------------------------------------------
(* The operations. *)

Init ==
    /\ md = NoRecord
    /\ call = [op |-> "start"]
    /\ res = None
    /\ nassign = 0

Construct ==
    /\ call.op = "start"
    /\ \E kwargs \in ConstructorArgs :
          LET c == StandardMetadata(kwargs)
          IN  /\ md' = IF c.frame.raised = None THEN c.self ELSE NoRecord
              /\ call' = [op |-> "StandardMetadata", kwargs |-> kwargs]
              /\ res' = c.frame
    /\ UNCHANGED nassign

FromPyprojectWith(documents, versions, dynamic_metadatas, flag_sets) ==
    /\ call.op = "start"
    /\ \E data \in documents, mv \in versions, dm \in dynamic_metadatas,
          flags \in flag_sets, ae \in BOOLEAN :
          LET r == from_pyproject(data, mv, dm, flags, ae)
          IN  /\ md' = r.self
              /\ call' = [op |-> "from_pyproject", data |-> data,
                          metadata_version |-> mv, dynamic_metadata |-> dm,
                          validate |-> flags, all_errors |-> ae]
              /\ res' = r.frame
    /\ UNCHANGED nassign

FromPyproject ==
    FromPyprojectWith(Documents, {None, Some("2.1")}, {<<>>}, {{"WARN"}})

SetAttr ==
    /\ HasRecord(md)
    /\ nassign < MaxAssign
    /\ \E name \in AttrNames :
          \E value \in ValuesOf(name) :
             LET r == setattr(md, name, value)
             IN  /\ md' = r[1]
                 /\ call' = [op |-> "__setattr__", name |-> name, value |-> value]
                 /\ res' = [raised |-> r[2]]
    /\ nassign' = nassign + 1

Validate ==
    /\ HasRecord(md)
    /\ \E warn \in BOOLEAN :
          /\ call' = [op |-> "validate", warn |-> warn]
          /\ res' = validate(md, warn)
    /\ UNCHANGED <<md, nassign>>

AutoMetadataVersion ==
    /\ HasRecord(md)
    /\ call' = [op |-> "auto_metadata_version"]
    /\ res' = [raised |-> None, value |-> auto_metadata_version(md)]
    /\ UNCHANGED <<md, nassign>>

AsRfc822 ==
    /\ HasRecord(md)
    /\ call' = [op |-> "as_rfc822"]
    /\ res' = as_rfc822(md)
    /\ UNCHANGED <<md, nassign>>

AsJson ==
    /\ HasRecord(md)
    /\ call' = [op |-> "as_json"]
    /\ res' = as_json(md)
    /\ UNCHANGED <<md, nassign>>

Next ==
    \/ Construct
    \/ FromPyproject
    \/ SetAttr
    \/ Validate
    \/ AutoMetadataVersion
    \/ AsRfc822
    \/ AsJson

Spec == Init /\ [][Next]_vars

----------------------------------------------------------------------------
(* validate and auto_metadata_version over every combination of the        *)
(* fields they read, and over every name of up to MaxNameLen characters.   *)
(* Each record is one an unlocked object reaches by attribute assignments. *)

BaseRecord == [f \in FieldNames |-> IF f = "name" THEN GoodName ELSE Defaults[f]]

RecordWith(changes) ==
    [f \in FieldNames |-> IF f \in DOMAIN changes THEN changes[f] ELSE BaseRecord[f]]

FieldCombinations ==
    {RecordWith([name |-> n, license |-> l, license_files |-> lf, classifiers |-> c,
                 metadata_version |-> mv, dynamic_metadata |-> dm, all_errors |-> ae])
        : n \in {GoodName, BadName},
          l \in {None, Some(MIT), Some(FreeText)},
          lf \in {None, Some(<<"LICENSE">>)},
          c \in {<<>>, <<OtherClassifier, LicenseClassifier>>},
          mv \in {None, Some("2.1"), Some("2.4"), Some("9.9")},
          dm \in {<<>>, <<"license">>},
          ae \in BOOLEAN}

Names == SeqsUpTo(Chars, MaxNameLen)

NameRecords ==
    {RecordWith([name |-> n, all_errors |-> ae]) : n \in Names, ae \in BOOLEAN}

InitValidate ==
    /\ md \in FieldCombinations \cup NameRecords
    /\ call = [op |-> "start"]
    /\ res = None
    /\ nassign = 0

NextValidate == Validate \/ AutoMetadataVersion

SpecValidate == InitValidate /\ [][NextValidate]_vars

----------------------------------------------------------------------------
(* _build_extra_req over every requirement whose marker text has up to     *)
(* MaxMarkerLen tokens.                                                    *)

MarkerTokens == {"A", "B", "and", "or", "(", ")"}

MarkerTexts == {t \in SeqsUpTo(MarkerTokens, MaxMarkerLen) : ValidMarkerText(t)}

Extras == {"test", "docs"}

(* Requirement('pkg; <text>'), or Requirement('pkg') for None *)
Requirement(text) ==
    [name |-> "pkg", marker |-> IF text = None THEN None ELSE Some(Marker(text[1]))]

InitMarker ==
    /\ md = NoRecord
    /\ \E text \in {None} \cup {Some(t) : t \in MarkerTexts} :
          call = [op |-> "Requirement", text |-> text]
    /\ res = None
    /\ nassign = 0

BuildExtraReq ==
    /\ call.op = "Requirement"
    /\ \E extra \in Extras :
          /\ call' = [op |-> "_build_extra_req", extra |-> extra,
                      requirement |-> Requirement(call.text)]
          /\ res' = build_extra_req(extra, Requirement(call.text))
    /\ UNCHANGED <<md, nassign>>

NextMarker == BuildExtraReq

SpecMarker == InitMarker /\ [][NextMarker]_vars

----------------------------------------------------------------------------
(* from_pyproject over every Validate flag set and documents with and      *)
(* without unknown keys in each scope.                                     *)

ScopeDocuments ==
    {[toplevel |-> t, build_system |-> b, project |-> pr]
        : t \in {{"project"}, {"project", "tool", "unknown-top"}, {"tool"}},
          b \in {{}, {"requires", "build-backend"}, {"requires", "unknown-build"}},
          pr \in {[name |-> GoodName, version |-> "1.0"],
                  [name |-> GoodName, version |-> "1.0", unknown |-> "x"]}}

FromPyprojectScopes ==
    FromPyprojectWith(ScopeDocuments, {None}, {<<>>}, SUBSET ValidateFlags)

NextIngest == FromPyprojectScopes

SpecIngest == Init /\ [][NextIngest]_vars

----------------------------------------------------------------------------
(* as_rfc822 and as_json over records whose fields are unset, set, or set  *)
(* to an empty value.  Each record is one the constructor returns.         *)

RenderRecords ==
    {RecordWith([version |-> Some("1.0"), urls |-> u, license |-> l,
                 classifiers |-> c, keywords |-> k, readme |-> r,
                 description |-> d, dynamic_metadata |-> dm])
        : u \in {<<>>, << <<"homepage", "https://example.org">> >>,
                 << <<"homepage", "">> >>},
          l \in {None, Some(MIT), Some(FreeText), Some(License(<<>>))},
          c \in {<<>>, <<OtherClassifier>>, <<OtherClassifier, <<>> >>},
          k \in {<<>>, << <<"k1">>, <<"k2">> >>, << <<>> >>},
          r \in {None, Some([text |-> <<"Read me">>, content_type |-> <<"text/markdown">>])},
          d \in {None, Some(<<"A summary">>), Some(<<>>)},
          dm \in {<<>>, <<"license">>}}

InitRender ==
    /\ md \in RenderRecords
    /\ call = [op |-> "start"]
    /\ res = None
    /\ nassign = 0

NextRender == AsRfc822 \/ AsJson

SpecRender == InitRender /\ [][NextRender]_vars

----------------------------------------------------------------------------
(* What the claims say, stated independently of the operators above.       *)

(* the errors a frame reports: the one raised, or the members of the       *)
(* aggregate                                                               *)
ReportedErrors(frame) ==
    IF frame.raised = None THEN <<>>
    ELSE IF frame.raised[1].type = "ExceptionGroup" THEN frame.raised[1].exceptions
    ELSE <<frame.raised[1]>>

ReportsKey(frame, key) ==
    \E i \in DOMAIN ReportedErrors(frame) : ReportedErrors(frame)[i].key = Some(key)

IsSpdx(self) == self.license # None /\ self.license[1].type = "str"
IsFreeText(self) == self.license # None /\ self.license[1].type = "License"
HasLicenseClassifier(self) ==
    \E i \in DOMAIN self.classifiers : self.classifiers[i][1] = "License ::"

(* the revision the version inference is to return *)
ExpectedVersion(self) ==
    IF self.metadata_version # None THEN self.metadata_version[1]
    ELSE IF IsSpdx(self) \/ self.license_files # None THEN "2.4"
    ELSE IF self.dynamic_metadata # <<>> THEN "2.2"
    ELSE "2.1"

PreSpdx(self) == ExpectedVersion(self) \in {"2.1", "2.2", "2.3"}

(* the error rules in the order of the claim, each with its error; the     *)
(* name rule is the code's pattern match, whose exact language is the      *)
(* subject of C7                                                           *)
ErrorRules(self) ==
    <<[violated |-> ExpectedVersion(self) \notin {"2.1", "2.2", "2.3", "2.4"},
       error |-> ConfigurationError(MsgVersion, None)],
      [violated |-> ~re_match_name(self.name),
       error |-> ConfigurationError(MsgName, Some("project.name"))],
      [violated |-> self.license_files # None /\ IsFreeText(self),
       error |-> ConfigurationError(MsgFilesLicense, Some("project.license-files"))],
      [violated |-> IsSpdx(self) /\ HasLicenseClassifier(self),
       error |-> ConfigurationError(MsgSpdxClassifier, Some("project.license"))],
      [violated |-> IsSpdx(self) /\ PreSpdx(self),
       error |-> ConfigurationError(MsgSpdxPre, Some("project.license"))],
      [violated |-> self.license_files # None /\ PreSpdx(self),
       error |-> ConfigurationError(MsgFilesPre, Some("project.license-files"))]>>

RECURSIVE ErrorsOf(_)
ErrorsOf(rules) ==
    IF rules = <<>> THEN <<>>
    ELSE (IF rules[1].violated THEN <<rules[1].error>> ELSE <<>>) \o ErrorsOf(Tail(rules))

RuleErrors(self) == ErrorsOf(ErrorRules(self))

(* what validate is to raise for the object *)
ExpectedRaise(self) ==
    IF RuleErrors(self) = <<>> THEN None
    ELSE IF self.all_errors
         THEN Some(ExceptionGroup("Metadata validation failed", RuleErrors(self)))
         ELSE Some(RuleErrors(self)[1])

IsRender == call.op \in {"as_rfc822", "as_json"}

----------------------------------------------------------------------------
(* C1: once a record is constructed (by from_pyproject or by the           *)
(* constructor), every assignment to a field whose name, underscores read  *)
(* as hyphens, is neither in the dynamic list nor metadata-version or      *)
(* dynamic-metadata is rejected with an error naming the field and leaves  *)
(* the record unchanged.                                                   *)
C1_NonDynamicAssignmentRejected ==
    [][(/\ call'.op = "__setattr__"
        /\ HasRecord(md)
        /\ replace_underscore(call'.name) \notin
               Range(md.dynamic) \cup {"metadata-version", "dynamic-metadata"})
       => (/\ res'.raised # None
           /\ res'.raised[1].type = "AttributeError"
           /\ res'.raised[1].key = Some(call'.name)
           /\ md' = md)]_vars

(* C2: a locked record that declares a project field dynamic accepts an    *)
(* assignment to the attribute holding that field.                         *)
C2_DynamicFieldAssignable ==
    [][(/\ call'.op = "__setattr__"
        /\ HasRecord(md)
        /\ md["_locked_metadata"]
        /\ \E f \in DynamicFields \cap Range(md.dynamic) : call'.name = attribute_of(f))
       => (/\ res'.raised = None
           /\ md'[call'.name] = call'.value)]_vars

(* C3: validate raises nothing when no rule is violated; collecting, it    *)
(* raises one aggregate holding the error of every violated rule in the    *)
(* order of the rules; failing fast, it raises the error of the first      *)
(* violated rule.                                                          *)
C3_ValidateOutcome ==
    call.op = "validate" => res.raised = ExpectedRaise(md)

C3_Witness ==
    /\ call.op = "validate"
    /\ md.all_errors
    /\ Len(RuleErrors(md)) = 3
    /\ res.raised # None
    /\ res.raised[1].type = "ExceptionGroup"
    /\ Len(res.raised[1].exceptions) = 3

(* C4: as_rfc822 and as_json return a document only if the current state   *)
(* of the record violates no error rule; otherwise they raise what         *)
(* validate raises for that state.                                         *)
C4_RenderRevalidates ==
    IsRender =>
        /\ res.raised = None => RuleErrors(md) = <<>>
        /\ RuleErrors(md) # <<>> => res.raised = ExpectedRaise(md)

C4_Witness ==
    /\ IsRender
    /\ md["_locked_metadata"]
    /\ nassign >= 1
    /\ RuleErrors(md) # <<>>
    /\ res.raised # None

(* C5: as_rfc822 and as_json raise whenever the record holds no version,   *)
(* and also for a record from_pyproject built with version declared        *)
(* dynamic and absent from the table, rendered before any assignment.      *)
C5_RenderNeedsVersion ==
    [][(call'.op \in {"as_rfc822", "as_json"})
       => (/\ md.version = None => res'.raised # None
           /\ (/\ call.op = "from_pyproject"
               /\ "version" \notin DOMAIN call.data.project
               /\ "dynamic" \in DOMAIN call.data.project
               /\ "version" \in Range(call.data.project["dynamic"]))
              => res'.raised # None)]_vars

(* C6: auto_metadata_version returns the override when one is set, else    *)
(* 2.4 for an SPDX license or non-null license_files, else 2.2 for a       *)
(* non-empty dynamic_metadata, else 2.1, and leaves the record unchanged.  *)
C6_InferredVersion ==
    [][call'.op = "auto_metadata_version"
       => (md' = md /\ res'.value = ExpectedVersion(md))]_vars

C6_Witness ==
    /\ call.op = "auto_metadata_version"
    /\ md.metadata_version = None
    /\ IsSpdx(md)
    /\ md.dynamic_metadata # <<>>
    /\ res.value = "2.4"

(* C7: the name rule passes exactly the names that are one character of    *)
(* [A-Za-z0-9], or start and end with one and hold only [A-Za-z0-9._-];    *)
(* every other name is reported with an error keyed project.name.          *)
ClaimAlnum(c) == c = "a"
ClaimAllowed(c) == c \in {"a", "."}
ClaimValidName(s) ==
    /\ Len(s) >= 1
    /\ ClaimAlnum(s[1])
    /\ ClaimAlnum(s[Len(s)])
    /\ \A i \in 1..Len(s) : ClaimAllowed(s[i])

C7_NameRule ==
    (call.op = "validate" /\ ExpectedVersion(md) \in {"2.1", "2.2", "2.3", "2.4"})
        => (ReportsKey(res, "project.name") <=> ~ClaimValidName(md.name))

(* C8: the marker of the result is extra == "E" for no marker, (M) and     *)
(* extra == "E" when M has an or at its outermost grouping, M and extra == *)
(* "E" otherwise; and it holds exactly when M holds and the extra is       *)
(* selected.                                                               *)
OrOutermost(markers) ==
    \E i \in DOMAIN markers : markers[i] = BoolOp("or")

C8_ExtraMarker ==
    call.op = "_build_extra_req" =>
        LET m == call.requirement.marker
            e == extra_comparison(call.extra)
            out == res.marker[1]
        IN  /\ res.name = call.requirement.name
            /\ m = None => out = Marker(<<e>>)
            /\ (m # None /\ OrOutermost(m[1]))
                  => out = Marker(<<"(">> \o str_marker(m[1]) \o <<")", "and", e>>)
            /\ (m # None /\ ~OrOutermost(m[1]))
                  => out = Marker(str_marker(m[1]) \o <<"and", e>>)
            /\ \A env \in SUBSET {"A", "B", e} :
                  evaluate_markers(out, env)
                      <=> (e \in env /\ (m = None \/ evaluate_markers(m[1], env)))

(* C9: constructing a record in which a field named in dynamic also        *)
(* carries a value fails with an error keyed to that field, through        *)
(* from_pyproject and through the constructor, and returns no record.      *)
C9_DynamicFieldWithValueRejected ==
    /\ call.op = "from_pyproject" =>
          \A f \in DynamicFields :
             (/\ "dynamic" \in DOMAIN call.data.project
              /\ f \in Range(call.data.project["dynamic"])
              /\ f \in DOMAIN call.data.project)
             => (ReportsKey(res, f) /\ ~HasRecord(md))
    /\ call.op = "StandardMetadata" =>
          \A f \in DynamicFields :
             (/\ f \in Range(call.kwargs.dynamic)
              /\ attribute_of(f) \in DOMAIN call.kwargs
              /\ call.kwargs[attribute_of(f)] # Defaults[attribute_of(f)])
             => (res.raised # None /\ ~HasRecord(md))

(* C10: unknown keys of a scope are a hard error when the scope's flag is  *)
(* set, else a warning when WARN is set, else ignored; failing fast, a     *)
(* scope is not examined after an earlier scope's hard error.              *)
Scopes == <<"TOP_LEVEL", "BUILD_SYSTEM", "PROJECT">>

ScopeMsg(k) == <<MsgExtraTop, MsgExtraBuild, MsgExtraProject>>[k]

UnknownKeys(data, k) ==
    CASE k = 1 -> data.toplevel \ KNOWN_TOPLEVEL_FIELDS
      [] k = 2 -> data.build_system \ KNOWN_BUILD_SYSTEM_FIELDS
      [] k = 3 -> (DOMAIN data.project) \ KNOWN_PROJECT_FIELDS

Outcome(frame, k) ==
    IF \E i \in DOMAIN ReportedErrors(frame) : ReportedErrors(frame)[i].msg = ScopeMsg(k)
    THEN "error"
    ELSE IF ScopeMsg(k) \in Range(frame.warnings) THEN "warn"
    ELSE "ignored"

(* failing fast, an earlier scope's error ends the call *)
Preempted(k) ==
    /\ ~call.all_errors
    /\ \E j \in 1..(k - 1) :
          UnknownKeys(call.data, j) # {} /\ Scopes[j] \in call.validate

C10_ScopeOutcomes ==
    (call.op = "from_pyproject" /\ "project" \in call.data.toplevel) =>
        \A k \in 1..3 :
           (UnknownKeys(call.data, k) # {} /\ ~Preempted(k)) =>
               Outcome(res, k) =
                   (IF Scopes[k] \in call.validate THEN "error"
                    ELSE IF "WARN" \in call.validate THEN "warn"
                    ELSE "ignored")

C10_Witness ==
    /\ call.op = "from_pyproject"
    /\ call.all_errors
    /\ call.validate = {"TOP_LEVEL", "WARN"}
    /\ \A k \in 1..3 : UnknownKeys(call.data, k) # {}
    /\ Outcome(res, 1) = "error"
    /\ Outcome(res, 2) = "warn"
    /\ Outcome(res, 3) = "warn"

(* C10, as worded: every combination of the outcomes error, warn and       *)
(* ignored over the three scopes is selected by some flag set.             *)
C10_EveryCombinationSelectable ==
    (/\ call.op = "from_pyproject"
     /\ call.all_errors
     /\ \A k \in 1..3 : UnknownKeys(call.data, k) # {})
    => \A combo \in [1..3 -> {"error", "warn", "ignored"}] :
          \E flags \in SUBSET ValidateFlags :
             \A k \in 1..3 :
                Outcome(from_pyproject(call.data, call.metadata_version,
                                       call.dynamic_metadata, flags, TRUE).frame, k)
                    = combo[k]

(* C12: validate with warnings enabled, having reached the warning step,   *)
(* emits the classifier warning exactly when the inferred revision is not  *)
(* a pre-SPDX one, the license is not a License object and some classifier *)
(* starts with 'License ::'; with warn=False it emits no warning.          *)
ReachesWarningStep(self) ==
    \/ self.all_errors
    \/ \A i \in 1..4 : ~ErrorRules(self)[i].violated

ClassifierWarned(frame) == WarnClassifier \in Range(frame.warnings)

C12_ClassifierWarning ==
    call.op = "validate" =>
        /\ ClassifierWarned(res) <=>
              (/\ call.warn
               /\ ReachesWarningStep(md)
               /\ ~PreSpdx(md)
               /\ ~IsFreeText(md)
               /\ HasLicenseClassifier(md))
        /\ ~call.warn => res.warnings = <<>>

C12_Witness ==
    /\ call.op = "validate"
    /\ call.warn
    /\ md.all_errors
    /\ IsSpdx(md)
    /\ HasLicenseClassifier(md)
    /\ ExpectedVersion(md) = "2.4"
    /\ ClassifierWarned(res)

(* C12, as worded: the classifier warning is emitted for every record with *)
(* a 'License ::' classifier and an inferred revision of 2.4, whatever the *)
(* form of the license field.                                              *)
C12_ClassifierWarningAnyLicense ==
    call.op = "validate" =>
        /\ (/\ call.warn
            /\ ReachesWarningStep(md)
            /\ HasLicenseClassifier(md)
            /\ ExpectedVersion(md) = "2.4")
           => ClassifierWarned(res)
        /\ ~call.warn => res.warnings = <<>>

(* C11: for a record that renders, a header field is present in the       *)
(* header document iff its key (lower-cased, '-' replaced by '_') is       *)
(* present in the structured document, the payload corresponds to the      *)
(* description key, repeatable fields carry the same values in the same    *)
(* order, and neither document stores an absent or empty value.            *)
HeaderFields ==
    {"Metadata-Version", "Name", "Version", "Summary", "Keywords", "Home-page",
     "Author", "Author-Email", "Maintainer", "Maintainer-Email", "License",
     "License-Expression", "License-File", "Classifier", "Project-URL",
     "Requires-Python", "Requires-Dist", "Provides-Extra",
     "Description-Content-Type", "Dynamic"}

RepeatableFields ==
    {"License-File", "Classifier", "Project-URL", "Requires-Dist",
     "Provides-Extra", "Dynamic"}

KeyOf(F) == replace_hyphen(lower(F))

HeaderValues(h, F) ==
    LET hs == SelectSeq(h.headers, LAMBDA e : e[1] = F)
    IN  [i \in 1..Len(hs) |-> hs[i][2]]

C11_SameCoverage ==
    (IsRender /\ res.raised = None) =>
        LET h == IF call.op = "as_rfc822" THEN res ELSE as_rfc822(md)
            j == IF call.op = "as_json" THEN res ELSE as_json(md)
        IN  /\ h.raised = None
            /\ j.raised = None
            /\ \A F \in HeaderFields :
                  (HeaderValues(h, F) # <<>>) <=> (KeyOf(F) \in DOMAIN j.data)
            /\ (h.payload # None) <=> ("description" \in DOMAIN j.data)
            /\ \A F \in RepeatableFields :
                  HeaderValues(h, F) # <<>> => HeaderValues(h, F) = j.data[KeyOf(F)]
            /\ \A F \in HeaderFields \ {"Keywords"} :
                  /\ \A i \in DOMAIN HeaderValues(h, F) : HeaderValues(h, F)[i] # <<>>
                  /\ KeyOf(F) \in DOMAIN j.data =>
                        /\ j.data[KeyOf(F)] # <<>>
                        /\ F \in RepeatableFields =>
                              \A i \in DOMAIN j.data[KeyOf(F)] : j.data[KeyOf(F)][i] # <<>>

====
